---- MODULE Spec2Model ----
(***************************************************************************)
(* Model of the clinic FAQ retrieval-answer engine (backend/rag/faq.py)    *)
(* and of its vector index adapter (backend/rag/vector_store.py).          *)
(*                                                                         *)
(* Text is a sequence of one-character strings.  A document is named by    *)
(* its page_content (a number); two documents are the same content iff     *)
(* the numbers are equal.  Distances and scores are integers: a distance   *)
(* is in units of 1/1000, a similarity in units of 1/2000 (so that         *)
(* 1 - d/2 is exact) and a relevance_score, rounded to 3 decimals, again   *)
(* in units of 1/1000.                                                     *)
(***************************************************************************)
EXTENDS Integers, Sequences, FiniteSets

VARIABLES
    persist_existed,  \* history: the persist directory existed before __init__
    adapter,          \* VectorStoreManager and the provider's stored collection
    engine,           \* FAQRagSystem: intents_data, retriever, qa_chain
    last,             \* the last call: its arguments and what it returned or raised
    hash_seed,        \* the string hash seed of the running process (set iteration order)
    composed          \* history: <<intent, page_content>> of every composition so far

vars == <<persist_existed, adapter, engine, last, hash_seed, composed>>

\* what the engine's and the adapter's operations leave alone
process_vars == <<hash_seed, composed>>

----------------------------------------------------------------------------
(* Bounds of the model *)

\* number of distinct document contents
MaxDoc == 2

\* hash seeds a process may start with: 0..MaxSeed
MaxSeed == 1

\* longest intents_data that prepare_documents composes
MaxIntents == 2

\* longest document list passed to create_vector_store / add_documents
MaxBatch == 2

\* largest collection the provider is let to hold
MaxColl == 3

----------------------------------------------------------------------------
(* Text helpers: str.lower, str.strip, str.startswith, the `in` operator *)

WhiteSpace == {" ", "\t", "\n", "\r"}

lower_char(c) ==
    CASE c = "A" -> "a"
      [] c = "B" -> "b"
      [] c = "C" -> "c"
      [] c = "D" -> "d"
      [] c = "E" -> "e"
      [] c = "F" -> "f"
      [] c = "G" -> "g"
      [] c = "H" -> "h"
      [] c = "I" -> "i"
      [] c = "J" -> "j"
      [] c = "K" -> "k"
      [] c = "L" -> "l"
      [] c = "M" -> "m"
      [] c = "N" -> "n"
      [] c = "O" -> "o"
      [] c = "P" -> "p"
      [] c = "Q" -> "q"
      [] c = "R" -> "r"
      [] c = "S" -> "s"
      [] c = "T" -> "t"
      [] c = "U" -> "u"
      [] c = "V" -> "v"
      [] c = "W" -> "w"
      [] c = "X" -> "x"
      [] c = "Y" -> "y"
      [] c = "Z" -> "z"
      [] OTHER -> c


lower(s) == [i \in 1..Len(s) |-> lower_char(s[i])]

SetMin(S) == CHOOSE x \in S : \A y \in S : x <= y

SetMax(S) == CHOOSE x \in S : \A y \in S : x >= y

strip(s) ==
    LET keep == {i \in 1..Len(s) : s[i] \notin WhiteSpace}
    IN  IF keep = {} THEN <<>> ELSE SubSeq(s, SetMin(keep), SetMax(keep))

startswith(s, p) == Len(s) >= Len(p) /\ SubSeq(s, 1, Len(p)) = p

contains(s, p) == \E i \in 0..(Len(s) - Len(p)) : SubSeq(s, i + 1, i + Len(p)) = p

\* dict.get(field, default)
get(d, field, default) == IF field \in DOMAIN d THEN d[field] ELSE default

----------------------------------------------------------------------------
(* FAQRagSystem._is_conversational_query *)

\* src/backend/rag/faq.py:207
greetings ==
    { <<"h", "i">>,   \* 'hi'
      <<"h", "e", "l", "l", "o">>,   \* 'hello'
      <<"h", "e", "y">>,   \* 'hey'
      <<"g", "o", "o", "d", " ", "m", "o", "r", "n", "i", "n", "g">>,   \* 'good morning'
      <<"g", "o", "o", "d", " ", "a", "f", "t", "e", "r", "n", "o", "o", "n">>,   \* 'good afternoon'
      <<"g", "o", "o", "d", " ", "e", "v", "e", "n", "i", "n", "g">>,   \* 'good evening'
      <<"g", "r", "e", "e", "t", "i", "n", "g", "s">> }   \* 'greetings'

\* src/backend/rag/faq.py:211
status_queries ==
    { <<"h", "o", "w", " ", "a", "r", "e", " ", "y", "o", "u">>,   \* 'how are you'
      <<"h", "o", "w", " ", "r", " ", "y", "o", "u">>,   \* 'how r you'
      <<"h", "o", "w", " ", "d", "o", " ", "y", "o", "u", " ", "d", "o">>,   \* 'how do you do'
      <<"w", "h", "a", "t", "s", " ", "u", "p">>,   \* 'whats up'
      <<"w", "h", "a", "t", "'", "s", " ", "u", "p">>,   \* 'what's up'
      <<"h", "o", "w", " ", "a", "r", "e", " ", "t", "h", "i", "n", "g", "s">> }   \* 'how are things'

\* src/backend/rag/faq.py:215
thanks ==
    { <<"t", "h", "a", "n", "k", " ", "y", "o", "u">>,   \* 'thank you'
      <<"t", "h", "a", "n", "k", "s">>,   \* 'thanks'
      <<"t", "h", "x">>,   \* 'thx'
      <<"a", "p", "p", "r", "e", "c", "i", "a", "t", "e", " ", "i", "t">>,   \* 'appreciate it'
      <<"t", "h", "a", "n", "k", " ", "u">> }   \* 'thank u'

\* src/backend/rag/faq.py:219
goodbye ==
    { <<"b", "y", "e">>,   \* 'bye'
      <<"g", "o", "o", "d", "b", "y", "e">>,   \* 'goodbye'
      <<"s", "e", "e", " ", "y", "o", "u">>,   \* 'see you'
      <<"t", "a", "k", "e", " ", "c", "a", "r", "e">>,   \* 'take care'
      <<"g", "o", "o", "d", " ", "b", "y", "e">>,   \* 'good bye'
      <<"l", "a", "t", "e", "r">>,   \* 'later'
      <<"h", "a", "v", "e", " ", "a", " ", "g", "o", "o", "d", " ", "d", "a", "y">> }   \* 'have a good day'

\* question_lower == g or startswith(g + " ") or startswith(g + mark)
phrase_match(question_lower, phrases, mark) ==
    \E g \in phrases :
        \/ question_lower = g
        \/ startswith(question_lower, g \o <<" ">>)
        \/ startswith(question_lower, g \o <<mark>>)

is_greeting(question_lower) == phrase_match(question_lower, greetings, ",")

\* The kind of canned response, or "" when the query is not conversational.
is_conversational_query(question) ==
    LET question_lower == strip(lower(question))
    IN  IF is_greeting(question_lower) THEN "greeting"
        ELSE IF \E q \in status_queries : contains(question_lower, q) THEN "status"
        ELSE IF phrase_match(question_lower, thanks, "!") THEN "thanks"
        ELSE IF phrase_match(question_lower, goodbye, "!") THEN "goodbye"
        ELSE ""

----------------------------------------------------------------------------
(* Documents, knowledge bases, knowledge source files *)

\* the documents: page_content i carries tag i
Docs == 1..MaxDoc

DocLists == UNION {[1..n -> Docs] : n \in 0..MaxBatch}

\* a knowledge base of n intents, intent i composing to document i
KnowledgeBases == {[i \in 1..n |-> i] : n \in 0..MaxDoc}

\* what open() and json.load find at data_path
Files ==
    {[kind |-> k, intents |-> <<>>] : k \in {"missing", "unreadable", "malformed", "unexpected"}}
    \cup {[kind |-> "intents", intents |-> kb] : kb \in KnowledgeBases}

\* one Document per intent, in order
prepare_documents(intents_data) == [i \in 1..Len(intents_data) |-> intents_data[i]]

\* The provider keeps a collection as a bag: how many stored entries carry
\* each page_content (entries have fresh ids, so equal contents do not merge).
EmptyBag == [d \in Docs |-> 0]

BagOf(documents) ==
    [d \in Docs |-> Cardinality({i \in 1..Len(documents) : documents[i] = d})]

BagPlus(bag, documents) == [d \in Docs |-> bag[d] + BagOf(documents)[d]]

RECURSIVE BagSum(_, _)
BagSum(bag, S) ==
    IF S = {} THEN 0
    ELSE LET d == CHOOSE x \in S : TRUE IN bag[d] + BagSum(bag, S \ {d})

BagSize(bag) == BagSum(bag, Docs)

----------------------------------------------------------------------------
(* VectorStoreManager over the provider's persistent collection *)

\* VectorStoreManager.__init__: makedirs(persist_directory, exist_ok=True), then
\* a client on the directory; collection is what an earlier process persisted.
new_adapter(collection_exists, collection) ==
    [ vector_store       |-> "None",
      persist_dir_exists |-> TRUE,
      collection_exists  |-> collection_exists,
      collection         |-> collection,
      initialized        |-> FALSE ]   \* history: a create or load succeeded and was not undone

delete_collection_keeps_store(a) ==
    IF a.collection_exists
    THEN [a EXCEPT !.collection_exists = FALSE, !.collection = EmptyBag,
                   !.initialized = FALSE]
    ELSE a

\* The provider's delete_collection raises when the collection does not exist;
\* the exception is swallowed and vector_store is then left as it was.
delete_collection(a) ==
    IF a.collection_exists
    THEN [a EXCEPT !.collection_exists = FALSE, !.collection = EmptyBag,
                   !.vector_store = "None", !.initialized = FALSE]
    ELSE a

\* Chroma(...): get_or_create_collection, then the documents are added to it.
\* stored = Len(documents) when from_documents returns; fewer when the provider
\* raised after storing that many, and vector_store is then not assigned.
from_documents(a, documents, stored) ==
    LET before == IF a.collection_exists THEN a.collection ELSE EmptyBag
        after  == [a EXCEPT !.collection_exists = TRUE,
                            !.collection = BagPlus(before, SubSeq(documents, 1, stored))]
    IN  IF stored = Len(documents)
        THEN [adapter |-> [after EXCEPT !.vector_store = "Chroma", !.initialized = TRUE],
              raised  |-> "none"]
        ELSE [adapter |-> after, raised |-> "ProviderError"]

create_vector_store_no_delete(a, documents, stored) ==
    IF documents = <<>>
    THEN [adapter |-> a, raised |-> "none"]
    ELSE from_documents(a, documents, stored)

create_vector_store(a, documents, stored) ==
    IF documents = <<>>
    THEN [adapter |-> a, raised |-> "none"]
    ELSE from_documents(delete_collection(a), documents, stored)

load_vector_store(a) ==
    [a EXCEPT !.collection_exists = TRUE,
              !.collection = IF a.collection_exists THEN a.collection ELSE EmptyBag,
              !.vector_store = "Chroma",
              !.initialized = TRUE]

\* rmtree and makedirs of the persist directory, and a new client on it
reset_vector_store(a) ==
    [delete_collection(a) EXCEPT !.collection_exists = FALSE, !.collection = EmptyBag,
                                 !.vector_store = "None", !.persist_dir_exists = TRUE,
                                 !.initialized = FALSE]

get_collection_count_unchecked(a, provider_fails) ==
    IF provider_fails THEN 0 ELSE BagSize(a.collection)

\* provider_fails: _collection.count() raised, which is caught
get_collection_count(a, provider_fails) ==
    IF a.vector_store = "None" THEN 0
    ELSE IF provider_fails \/ ~a.collection_exists THEN 0
    ELSE BagSize(a.collection)

\* VectorStoreManager.add_documents
vsm_add_documents(a, documents, stored) ==
    IF a.vector_store = "None" THEN [adapter |-> a, raised |-> "ValueError"]
    ELSE IF documents = <<>> THEN [adapter |-> a, raised |-> "none"]
    ELSE IF ~a.collection_exists THEN [adapter |-> a, raised |-> "ProviderError"]
    ELSE [adapter |-> [a EXCEPT !.collection = BagPlus(a.collection, SubSeq(documents, 1, stored))],
          raised  |-> IF stored = Len(documents) THEN "none" ELSE "ProviderError"]

Min2(x, y) == IF x <= y THEN x ELSE y

Max2(x, y) == IF x >= y THEN x ELSE y

\* results: the provider's answer, pairs <<document, distance>>
similarity_search(a, results, provider_fails) ==
    IF a.vector_store = "None" THEN [raised |-> "ValueError", results |-> <<>>]
    ELSE IF provider_fails \/ ~a.collection_exists
    THEN [raised |-> "ProviderError", results |-> <<>>]
    ELSE [raised |-> "none", results |-> results]

----------------------------------------------------------------------------
(* FAQRagSystem *)

\* FAQRagSystem.__init__; intents_data None is modelled as the empty sequence
\* (the code only tests its truth and its length)
new_engine == [intents_data |-> <<>>, retriever |-> "None", qa_chain |-> "None"]

\* str(idx) of a list position
RECURSIVE str(_)
str(n) ==
    LET digits == <<"0", "1", "2", "3", "4", "5", "6", "7", "8", "9">>
    IN  IF n < 10 THEN <<digits[n + 1]>> ELSE str(n \div 10) \o <<digits[(n % 10) + 1]>>

\* the intents of one category's qa_pairs from position idx on (idx from 0);
\* a pair is a dict that may lack 'q' or 'a' or hold empty ones
RECURSIVE convert_pairs(_, _, _)
convert_pairs(category, qa_pairs, idx) ==
    IF idx >= Len(qa_pairs) THEN <<>>
    ELSE LET qa_pair == qa_pairs[idx + 1]
             question == get(qa_pair, "q", <<>>)
             answer == get(qa_pair, "a", <<>>)
         IN  (IF question # <<>> /\ answer # <<>>
              THEN << [ tag |-> category \o <<"_">> \o str(idx),
                        category |-> category,
                        patterns |-> <<question>>,
                        responses |-> <<answer>> ] >>
              ELSE <<>>)
             \o convert_pairs(category, qa_pairs, idx + 1)

\* FAQRagSystem._convert_qa_to_intents; qa_data is the JSON object as the
\* sequence of its items, in the object's order
RECURSIVE convert_qa_to_intents(_)
convert_qa_to_intents(qa_data) ==
    IF qa_data = <<>> THEN <<>>
    ELSE convert_pairs(qa_data[1].category, qa_data[1].qa_pairs, 0)
         \o convert_qa_to_intents(Tail(qa_data))

\* data['intents'] of a JSON object that has the key
value_of_intents(data) ==
    data[CHOOSE i \in 1..Len(data) : data[i].category = <<"i", "n", "t", "e", "n", "t", "s">>].qa_pairs

\* A missing file returns [] and leaves intents_data as it was; open() or
\* json.load raising is not caught; a JSON value of no known shape gives [].
\* A JSON object is read as {"intents": [...]} when it has the key 'intents',
\* and as a mapping from categories to question and answer pairs when not.
load_intents_data(e, file) ==
    CASE file.kind = "missing"    -> [engine |-> e, raised |-> "none"]
      [] file.kind = "unreadable" -> [engine |-> e, raised |-> "OSError"]
      [] file.kind = "malformed"  -> [engine |-> e, raised |-> "JSONDecodeError"]
      [] file.kind = "unexpected" -> [engine |-> [e EXCEPT !.intents_data = <<>>], raised |-> "none"]
      [] file.kind = "mapping" ->
            IF \E i \in 1..Len(file.data) : file.data[i].category = <<"i", "n", "t", "e", "n", "t", "s">>
            THEN [engine |-> [e EXCEPT !.intents_data = value_of_intents(file.data)],
                  raised |-> "none"]
            ELSE [engine |-> [e EXCEPT !.intents_data = convert_qa_to_intents(file.data)],
                  raised |-> "none"]
      [] OTHER -> [engine |-> [e EXCEPT !.intents_data = file.intents], raised |-> "none"]

create_qa_chain(e, a) ==
    IF a.vector_store = "None" THEN e
    ELSE [e EXCEPT !.retriever = "set", !.qa_chain = "set"]

initialize(e, a, force_recreate, file, stored) ==
    LET l  == load_intents_data(e, file)
        e1 == l.engine
    IN  IF l.raised # "none" THEN [engine |-> e1, adapter |-> a, raised |-> l.raised]
        ELSE IF e1.intents_data = <<>> THEN [engine |-> e1, adapter |-> a, raised |-> "none"]
        ELSE LET vector_store_exists == a.persist_dir_exists
             IN  IF force_recreate \/ ~vector_store_exists
                 THEN LET documents == prepare_documents(e1.intents_data)
                          c == create_vector_store(a, documents, Min2(stored, Len(documents)))
                      IN  IF documents = <<>>
                          THEN [engine |-> e1, adapter |-> a, raised |-> "none"]
                          ELSE IF c.raised # "none"
                          THEN [engine |-> e1, adapter |-> c.adapter, raised |-> c.raised]
                          ELSE [engine |-> create_qa_chain(e1, c.adapter),
                                adapter |-> c.adapter, raised |-> "none"]
                 ELSE LET a1 == load_vector_store(a)
                      IN  [engine |-> create_qa_chain(e1, a1), adapter |-> a1, raised |-> "none"]

\* FAQRagSystem.add_documents
add_documents(e, a, documents, stored) ==
    LET r == IF a.vector_store = "None"
             THEN create_vector_store(a, documents, stored)
             ELSE vsm_add_documents(a, documents, stored)
    IN  IF r.raised # "none"
        THEN [engine |-> e, adapter |-> r.adapter, raised |-> r.raised]
        ELSE [engine |-> create_qa_chain(e, r.adapter), adapter |-> r.adapter, raised |-> "none"]

----------------------------------------------------------------------------
(* FAQRagSystem.prepare_documents: the text of one indexed document *)

\* str.join
RECURSIVE join(_, _)
join(sep, parts) ==
    IF parts = <<>> THEN <<>>
    ELSE IF Len(parts) = 1 THEN parts[1]
    ELSE parts[1] \o sep \o join(sep, Tail(parts))

\* src/backend/rag/faq.py:116, in the dict's order
keyword_map ==
    << [ key |-> <<"c", "o", "v", "i", "d">>,   \* 'covid'
         values |-> <<
             <<"c", "o", "r", "o", "n", "a", "v", "i", "r", "u", "s">>,   \* 'coronavirus'
             <<"c", "o", "v", "i", "d", "-", "1", "9">>,   \* 'covid-19'
             <<"p", "a", "n", "d", "e", "m", "i", "c">>,   \* 'pandemic'
             <<"m", "a", "s", "k">>,   \* 'mask'
             <<"p", "r", "o", "t", "o", "c", "o", "l">>,   \* 'protocol'
             <<"s", "a", "f", "e", "t", "y">> >> ],   \* 'safety'
       [ key |-> <<"i", "n", "s", "u", "r", "a", "n", "c", "e">>,   \* 'insurance'
         values |-> <<
             <<"c", "o", "v", "e", "r", "a", "g", "e">>,   \* 'coverage'
             <<"p", "r", "o", "v", "i", "d", "e", "r">>,   \* 'provider'
             <<"b", "i", "l", "l", "i", "n", "g">>,   \* 'billing'
             <<"p", "a", "y", "m", "e", "n", "t">> >> ],   \* 'payment'
       [ key |-> <<"h", "o", "u", "r", "s">>,   \* 'hours'
         values |-> <<
             <<"s", "c", "h", "e", "d", "u", "l", "e">>,   \* 'schedule'
             <<"o", "p", "e", "n">>,   \* 'open'
             <<"c", "l", "o", "s", "e", "d">>,   \* 'closed'
             <<"t", "i", "m", "e">>,   \* 'time'
             <<"o", "p", "e", "r", "a", "t", "i", "o", "n">> >> ],   \* 'operation'
       [ key |-> <<"l", "o", "c", "a", "t", "i", "o", "n">>,   \* 'location'
         values |-> <<
             <<"a", "d", "d", "r", "e", "s", "s">>,   \* 'address'
             <<"w", "h", "e", "r", "e">>,   \* 'where'
             <<"p", "a", "r", "k", "i", "n", "g">>,   \* 'parking'
             <<"d", "i", "r", "e", "c", "t", "i", "o", "n", "s">> >> ],   \* 'directions'
       [ key |-> <<"c", "a", "n", "c", "e", "l", "l", "a", "t", "i", "o", "n">>,   \* 'cancellation'
         values |-> <<
             <<"c", "a", "n", "c", "e", "l">>,   \* 'cancel'
             <<"r", "e", "s", "c", "h", "e", "d", "u", "l", "e">>,   \* 'reschedule'
             <<"p", "o", "l", "i", "c", "y">> >> ],   \* 'policy'
       [ key |-> <<"a", "p", "p", "o", "i", "n", "t", "m", "e", "n", "t">>,   \* 'appointment'
         values |-> <<
             <<"v", "i", "s", "i", "t">>,   \* 'visit'
             <<"b", "o", "o", "k", "i", "n", "g">>,   \* 'booking'
             <<"s", "c", "h", "e", "d", "u", "l", "e">> >> ] >>   \* 'schedule'

\* the values of the keys found in text, in keyword_map's order (faq.py:126-128)
RECURSIVE matched_values(_, _)
matched_values(text, i) ==
    IF i > Len(keyword_map) THEN <<>>
    ELSE (IF contains(text, keyword_map[i].key) THEN keyword_map[i].values ELSE <<>>)
         \o matched_values(text, i + 1)

\* the distinct items of a list, in the order of their first occurrence
RECURSIVE distinct(_)
distinct(items) ==
    IF items = <<>> THEN <<>>
    ELSE LET rest == distinct(SubSeq(items, 1, Len(items) - 1))
             item == items[Len(items)]
         IN  IF \E i \in 1..Len(rest) : rest[i] = item THEN rest ELSE Append(rest, item)

\* list(set(items)): the distinct items in the order of the set's hash table.
\* The hashes of strings depend on the seed the process drew at start, so the
\* order is fixed within a process and differs between processes; a seed is
\* represented by the rotation of the items that it yields.
list_of_set(items, seed) ==
    LET d == distinct(items)
        n == Len(d)
    IN  [i \in 1..n |-> d[((i - 1 + seed) % n) + 1]]

\* FAQRagSystem._extract_keywords
extract_keywords(category, patterns, responses, seed) ==
    LET text == lower(join(<<" ">>, patterns \o responses))
        keywords == <<category>> \o matched_values(text, 1)
    IN  list_of_set(keywords, seed)

\* page_content of the document prepare_documents builds for one intent
page_content(intent, seed) ==
    LET tag == get(intent, "tag", <<>>)
        category == get(intent, "category", tag)
        patterns == get(intent, "patterns", <<>>)
        responses == get(intent, "responses", <<>>)
        pattern_text == join(<<" ", "|", " ">>, patterns)
        response_text == join(<<" ", "|", " ">>, responses)
        keywords == extract_keywords(category, patterns, responses, seed)
        keyword_text == join(<<" ">>, keywords)
    IN  <<"C", "a", "t", "e", "g", "o", "r", "y", ":", " ">> \o category
        \o <<"\n", "Q", "u", "e", "s", "t", "i", "o", "n", "s", ":", " ">> \o pattern_text
        \o <<"\n", "A", "n", "s", "w", "e", "r", ":", " ">> \o response_text
        \o <<"\n", "K", "e", "y", "w", "o", "r", "d", "s", ":", " ">> \o keyword_text

\* intents a knowledge base may hold
IntentsCore ==
    { \* an intent whose text names 'hours'
      [ tag |-> <<"h", "o", "u", "r", "s">>,
        category |-> <<"c", "l", "i", "n", "i", "c", "_", "d", "e", "t", "a", "i", "l", "s">>,
        patterns |-> <<<<"H", "o", "u", "r", "s", "?">>>>,
        responses |-> <<<<"9", " ", "t", "o", " ", "5">>>> ],
      \* an intent without a category and without any key of keyword_map
      [ tag |-> <<"g", "r", "e", "e", "t", "i", "n", "g">>,
        patterns |-> <<<<"h", "e", "y">>>>,
        responses |-> <<<<"h", "e", "l", "l", "o">>>> ],
      \* two patterns, two keys that share the value 'schedule'
      [ tag |-> <<"v", "i", "s", "i", "t">>,
        category |-> <<"p", "o", "l", "i", "c", "i", "e", "s">>,
        patterns |-> <<<<"h", "o", "u", "r", "s">>, <<"a", "p", "p", "o", "i", "n", "t", "m", "e", "n", "t">>>>,
        responses |-> <<<<"o", "k">>, <<"c", "a", "l", "l", " ", "u", "s">>>> ],
      \* nothing but a tag
      [ tag |-> <<"e", "m", "p", "t", "y">> ] }

----------------------------------------------------------------------------
(* Scores *)

\* documents handed to the generation chain
RetrieverK == 5

\* k of the scored search
SearchK == 5

\* sources attributed in a response
MaxSources == 3

abs(x) == IF x < 0 THEN -x ELSE x

convert_distance_no_abs(distance) ==
    Max2(0, Min2(2000, 2000 - distance))

\* distance in 1/1000, similarity in 1/2000
convert_distance_to_similarity(distance) ==
    LET similarity == IF distance < 0
                      THEN 2000 - abs(distance)
                      ELSE 2000 - distance
    IN  Max2(0, Min2(2000, similarity))

\* round(score, 3): a similarity half-way between two thousandths goes down
\* (tie = 0) or up (tie = 1), as the binary value of the float falls
round3(similarity, tie) ==
    IF similarity % 2 = 0 THEN similarity \div 2 ELSE similarity \div 2 + tie

\* the score of the first scored result with the document's page_content, 0.0 if none
score_of(doc, search_results, tie) ==
    LET hits == {i \in 1..Len(search_results) : search_results[i][1] = doc}
    IN  IF hits = {} THEN 0
        ELSE round3(convert_distance_to_similarity(search_results[SetMin(hits)][2]), tie)

attribute_sources(source_docs, search_results, tie) ==
    [i \in 1..Min2(MaxSources, Len(source_docs)) |->
        [content |-> source_docs[i], tag |-> source_docs[i],
         relevance_score |-> score_of(source_docs[i], search_results, tie)]]

confidence_tier_inclusive(sources) ==
    IF sources # <<>> /\ sources[1].relevance_score >= 600 THEN "high"
    ELSE IF sources # <<>> /\ sources[1].relevance_score >= 400 THEN "medium"
    ELSE "low"

confidence_tier(sources) ==
    IF sources # <<>> /\ sources[1].relevance_score > 600 THEN "high"
    ELSE IF sources # <<>> /\ sources[1].relevance_score > 400 THEN "medium"
    ELSE "low"

----------------------------------------------------------------------------
(* FAQRagSystem._generate_follow_ups *)

\* src/backend/rag/faq.py:355
category_suggestions ==
    { [ category |-> <<"c", "l", "i", "n", "i", "c", "_", "d", "e", "t", "a", "i", "l", "s">>,   \* 'clinic_details'
        suggestions |-> <<
            \* "What are your clinic hours?"
            <<"W", "h", "a", "t", " ", "a", "r", "e", " ", "y", "o", "u", "r", " ", "c", "l", "i", "n", "i", "c", " ", "h", "o", "u", "r", "s", "?">>,
            \* "Where is the clinic located?"
            <<"W", "h", "e", "r", "e", " ", "i", "s", " ", "t", "h", "e", " ", "c", "l", "i", "n", "i", "c", " ", "l", "o", "c", "a", "t", "e", "d", "?">>,
            \* "Is parking available?"
            <<"I", "s", " ", "p", "a", "r", "k", "i", "n", "g", " ", "a", "v", "a", "i", "l", "a", "b", "l", "e", "?">> >> ],
      [ category |-> <<"i", "n", "s", "u", "r", "a", "n", "c", "e", "_", "b", "i", "l", "l", "i", "n", "g">>,   \* 'insurance_billing'
        suggestions |-> <<
            \* "What insurance providers do you accept?"
            <<"W", "h", "a", "t", " ", "i", "n", "s", "u", "r", "a", "n", "c", "e", " ", "p", "r", "o", "v", "i", "d", "e", "r", "s", " ", "d", "o", " ", "y", "o", "u", " ", "a", "c", "c", "e", "p", "t", "?">>,
            \* "What payment methods can I use?"
            <<"W", "h", "a", "t", " ", "p", "a", "y", "m", "e", "n", "t", " ", "m", "e", "t", "h", "o", "d", "s", " ", "c", "a", "n", " ", "I", " ", "u", "s", "e", "?">>,
            \* "Can you explain your billing policies?"
            <<"C", "a", "n", " ", "y", "o", "u", " ", "e", "x", "p", "l", "a", "i", "n", " ", "y", "o", "u", "r", " ", "b", "i", "l", "l", "i", "n", "g", " ", "p", "o", "l", "i", "c", "i", "e", "s", "?">> >> ],
      [ category |-> <<"v", "i", "s", "i", "t", "_", "p", "r", "e", "p", "a", "r", "a", "t", "i", "o", "n">>,   \* 'visit_preparation'
        suggestions |-> <<
            \* "What documents do I need for my first visit?"
            <<"W", "h", "a", "t", " ", "d", "o", "c", "u", "m", "e", "n", "t", "s", " ", "d", "o", " ", "I", " ", "n", "e", "e", "d", " ", "f", "o", "r", " ", "m", "y", " ", "f", "i", "r", "s", "t", " ", "v", "i", "s", "i", "t", "?">>,
            \* "What should I bring to my appointment?"
            <<"W", "h", "a", "t", " ", "s", "h", "o", "u", "l", "d", " ", "I", " ", "b", "r", "i", "n", "g", " ", "t", "o", " ", "m", "y", " ", "a", "p", "p", "o", "i", "n", "t", "m", "e", "n", "t", "?">> >> ],
      [ category |-> <<"p", "o", "l", "i", "c", "i", "e", "s">>,   \* 'policies'
        suggestions |-> <<
            \* "What's your cancellation policy?"
            <<"W", "h", "a", "t", "'", "s", " ", "y", "o", "u", "r", " ", "c", "a", "n", "c", "e", "l", "l", "a", "t", "i", "o", "n", " ", "p", "o", "l", "i", "c", "y", "?">>,
            \* "What are your COVID-19 protocols?"
            <<"W", "h", "a", "t", " ", "a", "r", "e", " ", "y", "o", "u", "r", " ", "C", "O", "V", "I", "D", "-", "1", "9", " ", "p", "r", "o", "t", "o", "c", "o", "l", "s", "?">>,
            \* "What happens if I'm late?"
            <<"W", "h", "a", "t", " ", "h", "a", "p", "p", "e", "n", "s", " ", "i", "f", " ", "I", "'", "m", " ", "l", "a", "t", "e", "?">> >> ] }

\* the suggestions kept for one category: of the first 2 of its list, those
\* that the question does not contain (faq.py:378-382)
suggestions_for(category, question) ==
    LET known == {c \in category_suggestions : c.category = category}
        suggestions == IF known = {} THEN <<>> ELSE (CHOOSE c \in known : TRUE).suggestions
        first2 == SubSeq(suggestions, 1, Min2(2, Len(suggestions)))
        NotAsked(suggestion) == ~contains(lower(question), lower(suggestion))
    IN  SelectSeq(first2, NotAsked)

\* categories: the metadata category of each retrieved document, <<>> if it has none
generate_follow_ups(question, doc_categories, seed) ==
    IF doc_categories = <<>>
    THEN << \* "What are your clinic hours?"
            <<"W", "h", "a", "t", " ", "a", "r", "e", " ", "y", "o", "u", "r", " ", "c", "l", "i", "n", "i", "c", " ", "h", "o", "u", "r", "s", "?">>,
            \* "What insurance do you accept?"
            <<"W", "h", "a", "t", " ", "i", "n", "s", "u", "r", "a", "n", "c", "e", " ", "d", "o", " ", "y", "o", "u", " ", "a", "c", "c", "e", "p", "t", "?">> >>
    ELSE LET NonEmpty(c) == c # <<>>
             categories == list_of_set(SelectSeq(doc_categories, NonEmpty), seed)
             first2 == SubSeq(categories, 1, Min2(2, Len(categories)))
             found == (IF Len(first2) >= 1 THEN suggestions_for(first2[1], question) ELSE <<>>)
                      \o (IF Len(first2) >= 2 THEN suggestions_for(first2[2], question) ELSE <<>>)
             follow_ups == distinct(found)
         IN  IF follow_ups # <<>>
             THEN SubSeq(follow_ups, 1, Min2(2, Len(follow_ups)))
             ELSE << \* "What else can I help you with?"
                     <<"W", "h", "a", "t", " ", "e", "l", "s", "e", " ", "c", "a", "n", " ", "I", " ", "h", "e", "l", "p", " ", "y", "o", "u", " ", "w", "i", "t", "h", "?">> >>

\* metadata category of the knowledge base's documents (faq.py:85, 101)
category_of(doc) ==
    CASE doc = 1 -> <<"c", "l", "i", "n", "i", "c", "_", "d", "e", "t", "a", "i", "l", "s">>
      [] doc = 2 -> <<"p", "o", "l", "i", "c", "i", "e", "s">>
      [] OTHER -> <<>>

----------------------------------------------------------------------------
(* FAQRagSystem.ask *)

\* the first provider call of a request that fails, if any
Faults == {"none", "count", "retrieve", "generate", "search"}

\* the response, and for the record the calls made and the text each call got:
\* the retriever's query, the question given to the chain (which the chain puts
\* in its template through RunnablePassthrough) and the scored search's query
Response(answer, sources, confidence, calls) ==
    [raised |-> "none", answer |-> answer, sources |-> sources,
     confidence |-> confidence, calls |-> calls,
     follow_up_suggestions |-> <<>>,
     retrieval_query |-> <<>>, generation_question |-> <<>>, search_query |-> <<>>]

\* the lines "{role}: {content}" of the turns
context_lines(turns) ==
    [i \in 1..Len(turns) |-> turns[i].role \o <<":", " ">> \o turns[i].content]

contextualize_all_turns(question, conversation_history) ==
    IF conversation_history # <<>>
    THEN LET recent_context == conversation_history
             context_str == join(<<"\n">>, context_lines(recent_context))
         IN  <<"P", "r", "e", "v", "i", "o", "u", "s", " ", "c", "o", "n", "v", "e", "r", "s", "a", "t", "i", "o", "n", ":", "\n">> \o context_str
             \o <<"\n", "\n", "C", "u", "r", "r", "e", "n", "t", " ", "q", "u", "e", "s", "t", "i", "o", "n", ":", " ">> \o question
    ELSE question

\* contextualized_question (faq.py:279-286)
contextualize(question, conversation_history) ==
    IF conversation_history # <<>>
    THEN LET n == Len(conversation_history)
             recent_context == SubSeq(conversation_history, Max2(1, n - 2), n)
             context_str == join(<<"\n">>, context_lines(recent_context))
         IN  <<"P", "r", "e", "v", "i", "o", "u", "s", " ", "c", "o", "n", "v", "e", "r", "s", "a", "t", "i", "o", "n", ":", "\n">> \o context_str
             \o <<"\n", "\n", "C", "u", "r", "r", "e", "n", "t", " ", "q", "u", "e", "s", "t", "i", "o", "n", ":", " ">> \o question
    ELSE question

\* env: what the providers do during this request.
\*   fault: the call that fails; source_docs: the retriever's answer to the
\*   contextualized question;
\*   search_results: the scored search's answer; tie: see round3;
\*   hash_seed: the process's string hash seed.
\* calls lists the retrieval, generation and scored-search calls made, in order
\* (the generation chain's own retrieval is part of "generate").

\* the body of the try statement: raised is what it throws, if anything
answer_from_index(a, question, conversation_history, env) ==
    LET contextualized_question == contextualize(question, conversation_history)
        Sent(r) == [r EXCEPT !.retrieval_query = contextualized_question,
                             !.generation_question =
                                 IF Len(r.calls) >= 2 THEN contextualized_question ELSE <<>>,
                             !.search_query = IF Len(r.calls) >= 3 THEN question ELSE <<>>]
    IN  IF env.fault = "retrieve"
        THEN Sent([Response("", <<>>, "", <<"retrieve">>) EXCEPT !.raised = "Exception"])
        ELSE IF env.fault = "generate"
        THEN Sent([Response("", <<>>, "", <<"retrieve", "generate">>)
                       EXCEPT !.raised = "Exception"])
        ELSE LET s == similarity_search(a, env.search_results, env.fault = "search")
                 sources == attribute_sources(env.source_docs, s.results, env.tie)
                 calls == <<"retrieve", "generate", "search">>
             IN  IF s.raised # "none"
                 THEN Sent([Response("", <<>>, "", calls) EXCEPT !.raised = s.raised])
                 ELSE LET follow_ups ==
                              generate_follow_ups(question,
                                  [i \in 1..Len(env.source_docs) |->
                                      category_of(env.source_docs[i])],
                                  env.hash_seed)
                      IN  Sent([Response("generated", sources, confidence_tier(sources), calls)
                                   EXCEPT !.follow_up_suggestions = follow_ups])

ask_propagating(e, a, question, conversation_history, env) ==
    LET kind == is_conversational_query(question)
    IN  IF kind # "" THEN Response(kind, <<>>, "high", <<>>)
        ELSE IF e.qa_chain = "None" \/ e.retriever = "None"
        THEN Response("not_initialized", <<>>, "low", <<>>)
        ELSE IF get_collection_count(a, env.fault = "count") = 0
        THEN Response("no_information", <<>>, "low", <<>>)
        ELSE answer_from_index(a, question, conversation_history, env)

ask_unguarded(e, a, question, conversation_history, env) ==
    LET kind == is_conversational_query(question)
        r == answer_from_index(a, question, conversation_history, env)
    IN  IF kind # "" THEN Response(kind, <<>>, "high", <<>>)
        ELSE IF r.raised # "none"
        THEN Response("error_fallback", <<>>, "low", r.calls)
        ELSE r

ask(e, a, question, conversation_history, env) ==
    LET kind == is_conversational_query(question)
    IN  IF kind # "" THEN Response(kind, <<>>, "high", <<>>)
        ELSE IF e.qa_chain = "None" \/ e.retriever = "None"
        THEN Response("not_initialized", <<>>, "low", <<>>)
        ELSE IF get_collection_count(a, env.fault = "count") = 0
        THEN Response("no_information", <<>>, "low", <<>>)
        ELSE LET r == answer_from_index(a, question, conversation_history, env)
             IN  IF r.raised # "none"
                 THEN Response("error_fallback", <<>>, "low", r.calls)
                 ELSE r

----------------------------------------------------------------------------
(* Inputs *)

\* questions of the requests made in every state of the engine and the adapter
QuestionsCore ==
    { <<"h", "i">>,   \* 'hi'
      <<"h", "e", "l", "l", "o", "!">>,   \* 'hello!'
      <<"t", "h", "a", "n", "k", "s", "!">>,   \* 'thanks!'
      <<"w", "h", "a", "t", " ", "a", "r", "e", " ", "y", "o", "u", "r", " ", "h", "o", "u", "r", "s", "?">> }   \* 'what are your hours?'

\* words that are no greeting phrase as written
OtherWords ==
    { <<"H", "i">>,   \* 'Hi'
      <<"H", "E", "L", "L", "O">>,   \* 'HELLO'
      <<"G", "o", "o", "d", " ", "M", "o", "r", "n", "i", "n", "g">>,   \* 'Good Morning'
      <<"h", "i", "g", "h">>,   \* 'high'
      <<"t", "h", "a", "n", "k", "s">>,   \* 'thanks'
      <<"b", "y", "e">>,   \* 'bye'
      <<"h", "o", "w", " ", "a", "r", "e", " ", "y", "o", "u">>,   \* 'how are you'
      <<"h", "o", "u", "r", "s">> }   \* 'hours'

\* what may follow the first word of a question
Suffixes ==
    { <<>>,   \* ''
      <<" ">>,   \* ' '
      <<",">>,   \* ','
      <<"!">>,   \* '!'
      <<".">>,   \* '.'
      <<"?">>,   \* '?'
      <<" ", "d", "o", "c">>,   \* ' doc'
      <<",", " ", "d", "o", "c">>,   \* ', doc'
      <<"!", " ", "d", "o", "c">>,   \* '! doc'
      <<"d", "o", "c">> }   \* 'doc'

\* a word, padded or not, with a suffix
Questions ==
    {pad \o word \o suffix : pad \in {<<>>, <<" ">>},
                            word \in greetings \cup OtherWords,
                            suffix \in Suffixes}

\* most categories of a question and answer file, and most pairs of a category
MaxCategories == 2
MaxPairs == 2

\* the pairs and the category names of question and answer files
Pairs ==
    { [q |-> <<"o", "p", "e", "n", "?">>, a |-> <<"y", "e", "s">>],
      [q |-> <<"f", "e", "e", "?">>],
      [q |-> <<>>, a |-> <<"n", "o">>] }

CategoryNames == {<<"f", "a", "q">>, <<"i", "n", "t", "e", "n", "t", "s">>}

PairLists == UNION {[1..n -> Pairs] : n \in 0..MaxPairs}

\* JSON objects from category names to lists of pairs: no name twice
Mappings ==
    {data \in UNION {[1..n -> [category : CategoryNames, qa_pairs : PairLists]] :
                        n \in 0..MaxCategories} :
        \A i \in 1..Len(data) : \A j \in 1..Len(data) :
            i # j => data[i].category # data[j].category}

MappingFiles == {[kind |-> "mapping", intents |-> <<>>, data |-> data] : data \in Mappings}

\* most documents given to _generate_follow_ups
MaxRetrieved == 3

\* questions and document categories given to _generate_follow_ups
FollowUpQuestions ==
    { <<"h", "o", "u", "r", "s", "?">>,
      \* "so WHAT are your clinic hours?"
      <<"s", "o", " ", "W", "H", "A", "T", " ", "a", "r", "e", " ", "y", "o", "u", "r", " ", "c", "l", "i", "n", "i", "c", " ", "h", "o", "u", "r", "s", "?">> }

DocCategories ==
    { <<>>,
      <<"c", "l", "i", "n", "i", "c", "_", "d", "e", "t", "a", "i", "l", "s">>,
      <<"p", "o", "l", "i", "c", "i", "e", "s">>,
      <<"o", "t", "h", "e", "r">> }

\* longest conversation_history of a request
MaxHistory == 4

\* the turns a conversation_history is made of
UserTurn == [role |-> <<"u", "s", "e", "r">>, content |-> <<"o", "p", "e", "n", "?">>]

AssistantTurn == [role |-> <<"a", "s", "s", "i", "s", "t", "a", "n", "t">>, content |-> <<"y", "e", "s">>]

\* conversations of up to MaxHistory turns, the two sides taking turns
Histories ==
    {[i \in 1..n |-> IF (i + first) % 2 = 0 THEN UserTurn ELSE AssistantTurn] :
        n \in 0..MaxHistory, first \in {0, 1}}

\* distances the scored search answers in those requests
DistancesCore == {0, 1000}

\* distances around the tier thresholds, at the ends of the range and outside it
DistancesTier == {-2000, 0, 780, 799, 800, 1180, 1200, 2500}

\* largest distance handed to the conversion on its own
MaxDistance == 2500

\* the scored search's answer: the collection's entries by ascending distance
\* (entries at the same distance by content), cut to k; distance_of maps a
\* page_content to its distance from the query
RECURSIVE by_distance(_, _, _)
by_distance(collection, distance_of, rest) ==
    IF rest = {} THEN <<>>
    ELSE LET d == CHOOSE x \in rest : \A y \in rest :
                      \/ distance_of[x] < distance_of[y]
                      \/ distance_of[x] = distance_of[y] /\ x <= y
         IN  [i \in 1..collection[d] |-> d] \o by_distance(collection, distance_of, rest \ {d})

scored_top_k(collection, distance_of, k) ==
    LET ranked == by_distance(collection, distance_of, Docs)
    IN  [i \in 1..Min2(k, Len(ranked)) |-> <<ranked[i], distance_of[ranked[i]]>>]

----------------------------------------------------------------------------
(* State *)

Obs(op) ==
    [ op |-> op, raised |-> "none",
      question |-> <<>>, fault |-> "none",
      answer |-> "", confidence |-> "", sources |-> <<>>, calls |-> <<>>,
      source_docs |-> <<>>, conversation_history |-> <<>>,
      doc_categories |-> <<>>, follow_up_suggestions |-> <<>>,
      data |-> <<>>,
      retrieval_query |-> <<>>, generation_question |-> <<>>, search_query |-> <<>>,
      documents |-> <<>>, count_before |-> 0, count |-> 0,
      force_recreate |-> FALSE, file |-> "",
      distance |-> 0, similarity |-> 0 ]

\* what an earlier process may have left in the persist directory
PersistedCollections == {BagOf(prepare_documents(kb)) : kb \in KnowledgeBases}

\* the state after FAQRagSystem.__init__
Init ==
    /\ persist_existed \in BOOLEAN
    /\ \E exists \in BOOLEAN, collection \in PersistedCollections :
          /\ exists => persist_existed
          /\ ~exists => collection = EmptyBag
          /\ adapter = new_adapter(exists, collection)
    /\ engine = new_engine
    /\ last = Obs("none")
    /\ hash_seed \in 0..MaxSeed
    /\ composed = {}

\* Calls are made one at a time: `last` holds a call's outcome until the caller
\* has taken it, and the next call starts after that.
Idle == last.op = "none"

Return ==
    /\ ~Idle
    /\ last' = Obs("none")
    /\ UNCHANGED <<persist_existed, adapter, engine, process_vars>>

----------------------------------------------------------------------------
(* Operations *)

Initialize ==
    /\ Idle
    /\ \E force_recreate \in BOOLEAN, file \in Files, stored \in 0..MaxDoc :
        LET r == initialize(engine, adapter, force_recreate, file, stored)
        IN  /\ engine' = r.engine
            /\ adapter' = r.adapter
            /\ last' = [Obs("initialize") EXCEPT !.raised = r.raised,
                                                 !.force_recreate = force_recreate,
                                                 !.file = file.kind,
                                                 !.documents = file.intents]
            /\ UNCHANGED <<persist_existed, process_vars>>

AddDocuments ==
    /\ Idle
    /\ \E documents \in DocLists, stored \in 0..MaxBatch :
        LET r == add_documents(engine, adapter, documents, stored)
        IN  /\ stored <= Len(documents)
            /\ BagSize(r.adapter.collection) <= MaxColl
            /\ engine' = r.engine
            /\ adapter' = r.adapter
            /\ last' = [Obs("add_documents") EXCEPT !.raised = r.raised,
                                                    !.documents = documents]
            /\ UNCHANGED <<persist_existed, process_vars>>

CreateVectorStore ==
    /\ Idle
    /\ \E documents \in DocLists, stored \in 0..MaxBatch :
        LET r == create_vector_store(adapter, documents, stored)
        IN  /\ stored <= Len(documents)
            /\ BagSize(r.adapter.collection) <= MaxColl
            /\ adapter' = r.adapter
            /\ last' = [Obs("create_vector_store") EXCEPT
                            !.raised = r.raised,
                            !.documents = documents,
                            !.count_before = get_collection_count(adapter, FALSE),
                            !.count = get_collection_count(r.adapter, FALSE)]
            /\ UNCHANGED <<persist_existed, engine, process_vars>>

LoadVectorStore ==
    /\ Idle
    /\ adapter' = load_vector_store(adapter)
    /\ last' = Obs("load_vector_store")
    /\ UNCHANGED <<persist_existed, engine, process_vars>>

VsmAddDocuments ==
    /\ Idle
    /\ \E documents \in DocLists, stored \in 0..MaxBatch :
        LET r == vsm_add_documents(adapter, documents, stored)
        IN  /\ stored <= Len(documents)
            /\ BagSize(r.adapter.collection) <= MaxColl
            /\ adapter' = r.adapter
            /\ last' = [Obs("vsm_add_documents") EXCEPT !.raised = r.raised,
                                                        !.documents = documents]
            /\ UNCHANGED <<persist_existed, engine, process_vars>>

DeleteCollection ==
    /\ Idle
    /\ adapter' = delete_collection(adapter)
    /\ last' = Obs("delete_collection")
    /\ UNCHANGED <<persist_existed, engine, process_vars>>

ResetVectorStore ==
    /\ Idle
    /\ adapter' = reset_vector_store(adapter)
    /\ last' = Obs("reset_vector_store")
    /\ UNCHANGED <<persist_existed, engine, process_vars>>

SimilaritySearch ==
    /\ Idle
    /\ \E provider_fails \in BOOLEAN, distance_of \in [Docs -> DistancesCore] :
        LET s == similarity_search(adapter,
                                   scored_top_k(adapter.collection, distance_of, SearchK),
                                   provider_fails)
        IN  last' = [Obs("similarity_search") EXCEPT !.raised = s.raised,
                                                     !.count = Len(s.results)]
    /\ UNCHANGED <<persist_existed, adapter, engine, process_vars>>

GetCollectionCount ==
    /\ Idle
    /\ \E provider_fails \in BOOLEAN :
        last' = [Obs("get_collection_count") EXCEPT
                    !.count = get_collection_count(adapter, provider_fails)]
    /\ UNCHANGED <<persist_existed, adapter, engine, process_vars>>

ConvertDistance ==
    /\ Idle
    /\ \E distance \in (-MaxDistance)..MaxDistance :
        last' = [Obs("convert_distance") EXCEPT
                    !.distance = distance,
                    !.similarity = convert_distance_to_similarity(distance)]
    /\ UNCHANGED <<persist_existed, adapter, engine, process_vars>>

\* What the retriever may answer.  It ranks the collection by distance from the
\* contextualized question: without history that is the question itself, and
\* the ranking is the scored search's; with history it is another text, with
\* distances of its own.
retrieved_for(conversation_history, distance_of, distances) ==
    LET Ranked(d) == LET top == scored_top_k(adapter.collection, d, RetrieverK)
                     IN  [i \in 1..Len(top) |-> top[i][1]]
    IN  IF conversation_history = <<>>
        THEN {Ranked(distance_of)}
        ELSE {Ranked(d) : d \in [Docs -> distances]}

\* One request.  When the request makes no provider call, or a provider call
\* fails, what the other calls would have answered does not matter.
AskWith(questions, histories, distances) ==
    /\ Idle
    /\ \E question \in questions, conversation_history \in histories, fault \in Faults :
        LET none == [fault |-> fault, source_docs |-> <<>>, search_results |-> <<>>, tie |-> 0,
                     hash_seed |-> hash_seed]
            r0 == ask(engine, adapter, question, conversation_history, none)
            Seen(r, docs) ==
                [Obs("ask") EXCEPT !.raised = r.raised, !.question = question,
                                   !.conversation_history = conversation_history,
                                   !.fault = fault, !.answer = r.answer,
                                   !.confidence = r.confidence,
                                   !.sources = r.sources, !.calls = r.calls,
                                   !.source_docs = docs,
                                   !.follow_up_suggestions = r.follow_up_suggestions,
                                   !.retrieval_query = r.retrieval_query,
                                   !.generation_question = r.generation_question,
                                   !.search_query = r.search_query]
        IN  IF r0.calls = <<>> \/ fault # "none"
            THEN last' = Seen(r0, <<>>)
            ELSE \E distance_of \in [Docs -> distances], tie \in {0, 1} :
                 \E source_docs \in retrieved_for(conversation_history, distance_of, distances) :
                    last' = Seen(ask(engine, adapter, question, conversation_history,
                                     [fault |-> fault, source_docs |-> source_docs,
                                      search_results |->
                                          scored_top_k(adapter.collection, distance_of, SearchK),
                                      tie |-> tie, hash_seed |-> hash_seed]),
                                 source_docs)
    /\ UNCHANGED <<persist_existed, adapter, engine, process_vars>>

Ask == AskWith(QuestionsCore, {<<>>}, DistancesCore)

AskAnyQuestion == AskWith(Questions, {<<>>}, {0})

AskAnyDistance == AskWith({<<"h", "o", "u", "r", "s", "?">>}, {<<>>}, DistancesTier)

\* requests that come with the turns of the conversation so far
AskWithHistory == AskWith({<<"h", "o", "u", "r", "s", "?">>}, Histories, DistancesCore)

\* FAQRagSystem.prepare_documents over some intents_data: one text per intent
PrepareDocuments ==
    /\ Idle
    /\ \E n \in 0..MaxIntents : \E intents_data \in [1..n -> IntentsCore] :
          composed' = composed \cup
              {<<intents_data[i], page_content(intents_data[i], hash_seed)>> : i \in 1..n}
    /\ last' = Obs("prepare_documents")
    /\ UNCHANGED <<persist_existed, adapter, engine, hash_seed>>

\* The server is stopped and started again: a new process with its own hash
\* seed, a new engine and a new adapter over what the last one persisted.
Restart ==
    /\ Idle
    /\ hash_seed' \in 0..MaxSeed
    /\ persist_existed' = TRUE
    /\ adapter' = new_adapter(adapter.collection_exists, adapter.collection)
    /\ engine' = new_engine
    /\ UNCHANGED <<last, composed>>

\* FAQRagSystem.load_intents_data on a question and answer file, or on no file
LoadIntentsData ==
    /\ Idle
    /\ \E file \in MappingFiles \cup {f \in Files : f.kind = "missing"} :
          LET l == load_intents_data(engine, file)
          IN  /\ engine' = l.engine
              /\ last' = [Obs("load_intents_data") EXCEPT
                              !.raised = l.raised, !.file = file.kind,
                              !.data = IF file.kind = "mapping" THEN file.data ELSE <<>>]
    /\ UNCHANGED <<persist_existed, adapter, process_vars>>

\* FAQRagSystem._generate_follow_ups on a question and retrieved documents
GenerateFollowUps ==
    /\ Idle
    /\ \E question \in FollowUpQuestions, n \in 0..MaxRetrieved :
          \E doc_categories \in [1..n -> DocCategories] :
             last' = [Obs("generate_follow_ups") EXCEPT
                         !.question = question,
                         !.doc_categories = doc_categories,
                         !.follow_up_suggestions =
                             generate_follow_ups(question, doc_categories, hash_seed)]
    /\ UNCHANGED <<persist_existed, adapter, engine, process_vars>>

Next ==
    \/ Initialize
    \/ AddDocuments
    \/ CreateVectorStore
    \/ LoadVectorStore
    \/ VsmAddDocuments
    \/ DeleteCollection
    \/ ResetVectorStore
    \/ SimilaritySearch
    \/ GetCollectionCount
    \/ Ask
    \/ Return

Spec == Init /\ [][Next]_vars

\* requests with every question, over the engine's start-up and reset
NextQuestions == Initialize \/ ResetVectorStore \/ AskAnyQuestion \/ Return

SpecQuestions == Init /\ [][NextQuestions]_vars

\* requests and conversions with every distance, over the engine's start-up
NextScores == Initialize \/ AskAnyDistance \/ ConvertDistance \/ Return

SpecScores == Init /\ [][NextScores]_vars

\* documents composed by one process after another
NextCompose == PrepareDocuments \/ Restart \/ Return

SpecCompose == Init /\ [][NextCompose]_vars

\* question and answer files loaded, in one process after another
NextNormalize == LoadIntentsData \/ Restart \/ Return

SpecNormalize == Init /\ [][NextNormalize]_vars

\* follow-up suggestions, in one process after another
NextFollowUps == GenerateFollowUps \/ Restart \/ Return

SpecFollowUps == Init /\ [][NextFollowUps]_vars

\* the engine's own operations, provider failures included
NextEngine == Initialize \/ AddDocuments \/ Return

SpecEngine == Init /\ [][NextEngine]_vars

\* requests with a conversation history
NextHistory == Initialize \/ AskWithHistory \/ Return

SpecHistory == Init /\ [][NextHistory]_vars

----------------------------------------------------------------------------
(* Properties *)

Punctuation == {",", "!", ".", "?", ";", ":"}

\* a greeting phrase, alone or followed by a space or a punctuation character
GreetingAsSpecified(question) ==
    LET q == strip(lower(question))
    IN  \E g \in greetings :
            \/ q = g
            \/ /\ startswith(q, g)
               /\ Len(q) > Len(g)
               /\ q[Len(g) + 1] \in {" "} \cup Punctuation

AskedNonConversational ==
    last.op = "ask" /\ is_conversational_query(last.question) = ""

\* a question that is no greeting, as the code reads it and as specified
AskedPlainQuestion ==
    AskedNonConversational /\ ~GreetingAsSpecified(last.question)

HasChain == engine.retriever = "set" /\ engine.qa_chain = "set"

\* what count() reports is zero: no index attached, or an empty collection
IndexHoldsNothing ==
    \/ adapter.vector_store = "None"
    \/ ~adapter.collection_exists
    \/ BagSize(adapter.collection) = 0

\* C1: every question that is a greeting phrase, or starts with one followed by
\* a space or a punctuation character, gets the fixed greeting answer with
\* confidence "high" and no sources, whatever the state of the index.
C1_GreetingAnswered ==
    (last.op = "ask" /\ GreetingAsSpecified(last.question))
        => /\ last.answer = "greeting"
           /\ last.confidence = "high"
           /\ last.sources = <<>>

CallsUpTo(fault) ==
    CASE fault = "retrieve" -> <<"retrieve">>
      [] fault = "generate" -> <<"retrieve", "generate">>
      [] OTHER -> <<"retrieve", "generate", "search">>

\* C2: on a ready engine, a non-conversational request in which the retrieval,
\* the generation or the scored search fails returns the one fallback answer
\* (confidence "low", no sources); nothing is raised, and the calls made are
\* those up to the failing one, each made once.
C2_FailureGivesOneFallback ==
    (/\ AskedNonConversational
     /\ HasChain /\ ~IndexHoldsNothing
     /\ last.fault \in {"retrieve", "generate", "search"})
        => /\ last.raised = "none"
           /\ last.answer = "error_fallback"
           /\ last.confidence = "low"
           /\ last.sources = <<>>
           /\ last.calls = CallsUpTo(last.fault)

C2_Witness ==
    /\ AskedNonConversational
    /\ HasChain /\ ~IndexHoldsNothing
    /\ last.fault = "search"
    /\ last.answer = "error_fallback"

\* C3: with no retriever or no generation chain, or with a count of zero, a
\* non-conversational request gets a fixed answer with confidence "low" and no
\* sources, and no retrieval, generation or scored-search call is made.
C3_NotReadyNoCalls ==
    (/\ AskedNonConversational
     /\ (~HasChain \/ IndexHoldsNothing \/ last.fault = "count"))
        => /\ last.raised = "none"
           /\ last.answer \in {"not_initialized", "no_information"}
           /\ last.confidence = "low"
           /\ last.sources = <<>>
           /\ last.calls = <<>>

C3_Witness ==
    /\ AskedNonConversational
    /\ HasChain /\ adapter.vector_store = "None"
    /\ last.fault = "retrieve"
    /\ last.calls = <<>>

\* C4 as stated: whenever the index holds zero documents, a non-conversational
\* request gets the "no information loaded" answer with confidence "low".
C4_EmptyIndexNoInformation ==
    (AskedPlainQuestion /\ IndexHoldsNothing)
        => last.answer = "no_information" /\ last.confidence = "low"

\* C4 as amended: whenever the index holds zero documents, a non-conversational
\* request gets confidence "low", with the "no information loaded" answer when
\* the engine has its retriever and chain and the "not properly initialized"
\* answer when it has not.
C4_EmptyIndexAnswer ==
    (AskedNonConversational /\ IndexHoldsNothing)
        => /\ last.confidence = "low"
           /\ last.answer = IF HasChain THEN "no_information" ELSE "not_initialized"

C4_Witness ==
    /\ AskedNonConversational
    /\ HasChain
    /\ adapter.vector_store = "Chroma" /\ BagSize(adapter.collection) = 0
    /\ last.answer = "no_information"

\* C5: initialize with a non-empty knowledge base rebuilds the index from all
\* composed documents when force_recreate is true or no persisted storage
\* existed before the engine was constructed.
C5_RebuildWhenNoStorage ==
    (/\ last.op = "initialize"
     /\ last.file = "intents" /\ last.documents # <<>>
     /\ last.raised = "none"
     /\ (last.force_recreate \/ ~persist_existed))
        => /\ adapter.vector_store = "Chroma"
           /\ adapter.collection = BagOf(prepare_documents(last.documents))

\* C6: with a missing, unreadable or malformed knowledge source, initialize
\* raises nothing and leaves an engine with no intents, no retriever and no chain.
C6_BadSourceStartsNotReady ==
    (last.op = "initialize" /\ last.file \in {"missing", "unreadable", "malformed"})
        => /\ last.raised = "none"
           /\ engine.intents_data = <<>>
           /\ engine.retriever = "None"
           /\ engine.qa_chain = "None"

\* clamp(1 - |d|/2, 0, 1), in the model's units
ClampedSimilarity(d) ==
    LET s == 2000 - (IF d < 0 THEN 0 - d ELSE d)
    IN  IF s < 0 THEN 0 ELSE IF s > 2000 THEN 2000 ELSE s

\* C7: the conversion of a distance d is clamp(1 - |d|/2, 0, 1), for d positive,
\* zero or negative, and every relevance_score of a source lies in [0, 1].
C7_SimilarityIsClamped ==
    /\ last.op = "convert_distance" => last.similarity = ClampedSimilarity(last.distance)
    /\ last.op = "ask" =>
          \A i \in 1..Len(last.sources) :
              last.sources[i].relevance_score \in 0..1000

C7_Witness ==
    /\ last.op = "convert_distance"
    /\ last.distance = -2000
    /\ last.similarity = 0

\* C8: in an answer of the retrieval path, confidence is "high" iff the first
\* source's relevance_score is above 0.6, "medium" iff it is above 0.4 and not
\* above 0.6, and "low" otherwise, also when there is no source.
C8_ConfidenceTier ==
    (last.op = "ask" /\ last.answer = "generated")
        => LET some == last.sources # <<>>
               top  == IF some THEN last.sources[1].relevance_score ELSE 0
           IN  /\ last.confidence = "high" <=> (some /\ top > 600)
               /\ last.confidence = "medium" <=> (some /\ top > 400 /\ top <= 600)
               /\ last.confidence = "low" <=> (~some \/ top <= 400)

C8_Witness ==
    /\ last.op = "ask" /\ last.answer = "generated"
    /\ last.sources # <<>>
    /\ last.sources[1].relevance_score = 600
    /\ last.confidence = "medium"

\* C9: after create_vector_store of a non-empty list has returned, from any
\* earlier state of the adapter, the collection holds exactly the documents of
\* the list and count() is their number.
C9_RebuildHoldsExactlyInput ==
    (/\ last.op = "create_vector_store"
     /\ last.documents # <<>>
     /\ last.raised = "none")
        => /\ last.count = Len(last.documents)
           /\ adapter.collection = BagOf(last.documents)

C9_Witness ==
    /\ last.op = "create_vector_store"
    /\ last.raised = "none"
    /\ last.count_before > 0
    /\ last.count = Len(last.documents)

\* C10: while no create or load has succeeded since construction or since the
\* last delete or reset, a search raises "not initialized" and count() returns
\* 0 and raises nothing.
C10_UninitializedSearchAndCount ==
    ~adapter.initialized
        => /\ last.op = "similarity_search" => last.raised = "ValueError"
           /\ last.op = "get_collection_count" => last.count = 0 /\ last.raised = "none"

C10_Witness ==
    /\ last.op = "similarity_search"
    /\ ~adapter.initialized
    /\ HasChain
    /\ last.raised = "ValueError"

\* C11: composing the same intent twice, in the same run of the program or in
\* different runs, gives the same text character for character, the order of the
\* keywords included.
C11_ComposeIsIdempotent ==
    \A p \in composed : \A q \in composed : p[1] = q[1] => p[2] = q[2]

\* C12: in every answer the sources are at most 3 and at most as many as the
\* distinct retrieved candidates, so no two sources have the same document
\* content, also when the index holds duplicate documents.
C12_SourcesAreDistinct ==
    (AskedPlainQuestion /\ last.answer = "generated") =>
        /\ Len(last.sources) <= 3
        /\ Len(last.sources) <= Cardinality({last.source_docs[i] : i \in 1..Len(last.source_docs)})
        /\ \A i \in 1..Len(last.sources) : \A j \in 1..Len(last.sources) :
               i # j => last.sources[i].content # last.sources[j].content

\* the last n turns of a history, oldest first
LastTurns(history, n) ==
    [i \in 1..Min2(n, Len(history)) |-> history[Len(history) - Min2(n, Len(history)) + i]]

\* the question under the "Previous conversation / Current question" framing
\* over the last 3 turns, as specified
RECURSIVE TurnLines(_)
TurnLines(turns) ==
    IF turns = <<>> THEN <<>>
    ELSE turns[1].role \o <<":", " ">> \o turns[1].content
         \o (IF Len(turns) > 1 THEN <<"\n">> ELSE <<>>) \o TurnLines(Tail(turns))

ContextualizedAsSpecified(question, history) ==
    <<"P", "r", "e", "v", "i", "o", "u", "s", " ", "c", "o", "n", "v", "e", "r", "s", "a", "t", "i", "o", "n", ":", "\n">>
    \o TurnLines(LastTurns(history, 3))
    \o <<"\n", "\n", "C", "u", "r", "r", "e", "n", "t", " ", "q", "u", "e", "s", "t", "i", "o", "n", ":", " ">> \o question

AnsweredWithHistory ==
    /\ last.op = "ask" /\ last.answer = "generated"
    /\ last.conversation_history # <<>>

\* C13 as stated: with a non-empty conversation_history the retrieval query is
\* the contextualized string built from the last 3 turns, while the question
\* placed in the generation template is the original question.
C13_TemplateGetsOriginalQuestion ==
    AnsweredWithHistory =>
        /\ last.retrieval_query =
               ContextualizedAsSpecified(last.question, last.conversation_history)
        /\ last.generation_question = last.question

\* C13 amended: with a non-empty conversation_history the retrieval query and
\* the question placed in the generation template are both the contextualized
\* string built from the last 3 turns; the original question is the query of
\* the scored search only.
C13_TemplateGetsContextualizedQuestion ==
    AnsweredWithHistory =>
        /\ last.retrieval_query =
               ContextualizedAsSpecified(last.question, last.conversation_history)
        /\ last.generation_question = last.retrieval_query
        /\ last.search_query = last.question

\* a generated answer to a request with more than 3 turns of history
C13_Witness ==
    /\ AnsweredWithHistory
    /\ Len(last.conversation_history) > 3
    /\ last.generation_question # last.question

\* the suggestions as specified for the categories of the retrieved documents
FollowUpsAsSpecified(question, doc_categories) ==
    LET NonEmpty(c) == c # <<>>
        categories == distinct(SelectSeq(doc_categories, NonEmpty))   \* in encounter order
        first2 == SubSeq(categories, 1, Min2(2, Len(categories)))
        found == (IF Len(first2) >= 1 THEN suggestions_for(first2[1], question) ELSE <<>>)
                 \o (IF Len(first2) >= 2 THEN suggestions_for(first2[2], question) ELSE <<>>)
        kept == distinct(found)
    IN  IF kept # <<>> THEN SubSeq(kept, 1, Min2(2, Len(kept)))
        ELSE <<<<"W", "h", "a", "t", " ", "e", "l", "s", "e", " ", "c", "a", "n", " ", "I", " ", "h", "e", "l", "p", " ", "y", "o", "u", " ", "w", "i", "t", "h", "?">>>>

\* C14: the follow-up suggestions are, over the first 2 distinct non-empty
\* categories in encounter order, the first 2 suggestions of each category's list
\* that the question does not contain (case-insensitively), without repetition
\* and cut to 2; when none qualify, also when no document was retrieved, they are
\* the single generic suggestion.
C14_FollowUpsAsSpecified ==
    last.op = "generate_follow_ups" =>
        last.follow_up_suggestions = FollowUpsAsSpecified(last.question, last.doc_categories)

\* the pairs of a mapping in source order, each with its category and its
\* position in the category's list
RECURSIVE PositionsOf(_)
PositionsOf(data) ==
    IF data = <<>> THEN <<>>
    ELSE [i \in 1..Len(data[1].qa_pairs) |->
             [category |-> data[1].category, i |-> i - 1, pair |-> data[1].qa_pairs[i]]]
         \o PositionsOf(Tail(data))

HasBoth(p) ==
    /\ "q" \in DOMAIN p.pair /\ p.pair.q # <<>>
    /\ "a" \in DOMAIN p.pair /\ p.pair.a # <<>>

IntentsAsSpecified(data) ==
    LET kept == SelectSeq(PositionsOf(data), HasBoth)
    IN  [k \in 1..Len(kept) |->
            [ tag |-> kept[k].category \o <<"_">> \o str(kept[k].i),
              category |-> kept[k].category,
              patterns |-> <<kept[k].pair.q>>,
              responses |-> <<kept[k].pair.a>> ]]

\* C15: loading a mapping from categories to lists of pairs gives, in source
\* order, one intent per pair that has both a question and an answer, with tag
\* "{category}_{i}" for the pair at position i of its category, that question as
\* the only pattern and that answer as the only response; the other pairs are
\* dropped and no two intents have the same tag.
C15_MappingIsNormalized ==
    (last.op = "load_intents_data" /\ last.file = "mapping") =>
        /\ engine.intents_data = IntentsAsSpecified(last.data)
        /\ \A i \in 1..Len(engine.intents_data) : \A j \in 1..Len(engine.intents_data) :
               i # j => get(engine.intents_data[i], "tag", <<>>)
                            # get(engine.intents_data[j], "tag", <<>>)

\* C16: in every answer of the retrieval path the sources are in non-increasing
\* order of relevance_score, so the first source, which sets the confidence
\* tier, has the highest score; also with a conversation history and with
\* retrieved documents that the scored search does not return.
C16_SourcesByDescendingScore ==
    (last.op = "ask" /\ last.answer = "generated") =>
        \A i \in 1..Len(last.sources) : \A j \in 1..Len(last.sources) :
            i < j => last.sources[i].relevance_score >= last.sources[j].relevance_score

\* C17: after any sequence of initialize and add_documents calls on the engine,
\* calls that fail in the provider and calls with nothing to index included, the
\* retriever and the generation chain are both unset or both set, and when they
\* are set the adapter's index is initialized.
C17_ChainOnlyOverAnIndex ==
    /\ (engine.retriever = "None") <=> (engine.qa_chain = "None")
    /\ HasChain => adapter.initialized /\ adapter.vector_store # "None"

====
